---------------------------- MODULE Spec2Model ----------------------------
(***************************************************************************)
(* TStarBot1: the vectorized environment manager (envs/parallel_env.py)    *)
(* and the A2C training loop (agents/a2c_agent.py) as a state machine.     *)
(*                                                                         *)
(* Processes: one manager (the training process) and NumEnvs workers, each *)
(* owning one gym environment and joined to the manager by a duplex pipe.  *)
(* A pipe is a pair of FIFO queues: toWorker[i] and toManager[i].          *)
(***************************************************************************)
EXTENDS Integers, Sequences, FiniteSets, TLC

\* ------------------------------------------------------------------ bounds
NumEnvs == 2
MaxCalls == 3
MaxT == 3
MaxTrainCalls == 3

Envs == 1..NumEnvs

\* ------------------------------------------------- the data of the program
\* discrete action indices an agent may send
Actions == {0, 1}
\* scalar rewards an environment may pay
Rewards == {0, 1}
\* the payload of a command that carries none: ('reset', None), ('close', None)
NoData == -1
\* the command tags the worker's if/elif chain knows
KnownCmds == {"step", "reset", "close", "get_spaces"}
\* the worker is between commands (blocked in, or about to call, pipe.recv)
NoCmd == [cmd |-> "none", data |-> NoData]

VARIABLES
    toWorker,    \* [Envs -> Seq(command)]   manager end -> worker end
    toManager,   \* [Envs -> Seq(reply)]     worker end -> manager end
    wstate,      \* [Envs -> {"Running","Terminated","Faulted"}]
    wcmd,        \* [Envs -> command]  the command a worker is handling
    env,         \* [Envs -> [tick, closed]]  the wrapped environments
    envCalls,    \* [Envs -> [step, reset, close]]  history: calls into env
    recvLog,     \* [Envs -> Seq(tag)]   history: commands a worker received
    replyLog,    \* [Envs -> Seq([kind, re])]  history: replies a worker sent
    mpc,         \* manager position: "idle","send","recv","stack","join"
    mcall,       \* the manager call in progress / last made
    midx,        \* loop index of the manager's for loop / comprehension
    actions,     \* the argument of the step call
    results,     \* the list the recv comprehension is building
    ret,         \* the value the last manager call returned
    ncalls,      \* history: manager calls (client commands) started
    nsteps,      \* history: manager step calls that have returned
    cmdSent,     \* [Envs -> Nat] history: commands the manager sent
    repRecv,     \* [Envs -> Nat] history: replies the manager consumed
    apc,         \* agent position in train / _rollout / _boostrap
    rollout_num_steps,  \* A2CAgent._rollout_num_steps
    discount,    \* A2CAgent._discount, in tenths
    params,      \* version of the actor-critic parameters
    obs,         \* the current batched observation
    obs_mb,      \* rollout buffers of _rollout
    action_mb,
    reward_mb,
    done_mb,
    last_value,  \* the terminal value estimate of _boostrap
    last_obs,    \* the observation _boostrap last evaluated the value head on
    heap,        \* tensor storages, by allocation order
    r,           \* the storage the local r of _boostrap refers to
    target_value,     \* the list _boostrap appends to: storages (views)
    target_value_mb   \* the targets _rollout returned

protoVars == <<toWorker, toManager, wstate, wcmd, env, envCalls, recvLog,
               replyLog>>
mgrVars == <<mpc, mcall, midx, actions, results, ret, ncalls, nsteps,
             cmdSent, repRecv>>
bootVars == <<last_value, last_obs, heap, r, target_value, target_value_mb>>
agentVars == <<apc, rollout_num_steps, discount, params, obs, obs_mb,
               action_mb, reward_mb, done_mb, bootVars>>
vars == <<protoVars, mgrVars, agentVars>>

\* --------------------------------------------------- the wrapped environment
\* gym.Env is an external collaborator.  Its state is the number of ticks of
\* the running episode; an observation names the environment it came from and
\* the tick it shows, so tick 0 is exactly what env.reset() returns.
Ob(i, t) == [env |-> i, tick |-> t]

ResetOb(i) == Ob(i, 0)

\* info: the environment's own account of the transition it just made
Info(i, a, rew, done) == [env |-> i, act |-> a, rew |-> rew, done |-> done]

NoRet == [call |-> "none"]

\* -------------------------------------------------------------- the worker
\* line 10: cmd, data = pipe.recv()
WorkerRecv(i) ==
    /\ wstate[i] = "Running"
    /\ wcmd[i] = NoCmd
    /\ toWorker[i] # <<>>
    /\ wcmd' = [wcmd EXCEPT ![i] = Head(toWorker[i])]
    /\ toWorker' = [toWorker EXCEPT ![i] = Tail(@)]
    /\ recvLog' = [recvLog EXCEPT ![i] = Append(@, Head(toWorker[i]).cmd)]
    /\ UNCHANGED <<toManager, wstate, env, envCalls, replyLog>>
    /\ UNCHANGED <<mgrVars, agentVars>>

\* the reply pipe.send puts on the channel, with the history of what it answers
SendReply(i, kind, msg) ==
    /\ toManager' = [toManager EXCEPT ![i] = Append(@, msg)]
    /\ replyLog' = [replyLog EXCEPT
                      ![i] = Append(@, [kind |-> kind, re |-> Len(recvLog[i])])]

\* mutant: the terminal observation is sent on, the reset one dropped
StepReplyObTerminal(i, stepOb, done) == stepOb

\* the observation a step command is answered with (line 13)
StepReplyOb(i, stepOb, done) == IF done THEN ResetOb(i) ELSE stepOb

\* lines 11-14: env.step, reset if done, reply
WorkerStep(i) ==
    /\ wstate[i] = "Running"
    /\ wcmd[i].cmd = "step"
    /\ \E rew \in Rewards, done \in BOOLEAN :
         LET stepOb == Ob(i, env[i].tick + 1)
             ob == StepReplyOb(i, stepOb, done)
         IN /\ env' = [env EXCEPT ![i].tick = ob.tick]
            /\ envCalls' = [envCalls EXCEPT
                              ![i].step = @ + 1,
                              ![i].reset = IF done THEN @ + 1 ELSE @]
            /\ SendReply(i, "step",
                         [ob |-> ob, reward |-> rew, done |-> done,
                          info |-> Info(i, wcmd[i].data, rew, done)])
    /\ wcmd' = [wcmd EXCEPT ![i] = NoCmd]
    /\ UNCHANGED <<toWorker, wstate, recvLog>>
    /\ UNCHANGED <<mgrVars, agentVars>>

\* lines 15-17
WorkerReset(i) ==
    /\ wstate[i] = "Running"
    /\ wcmd[i].cmd = "reset"
    /\ env' = [env EXCEPT ![i].tick = 0]
    /\ envCalls' = [envCalls EXCEPT ![i].reset = @ + 1]
    /\ SendReply(i, "reset", [ob |-> ResetOb(i)])
    /\ wcmd' = [wcmd EXCEPT ![i] = NoCmd]
    /\ UNCHANGED <<toWorker, wstate, recvLog>>
    /\ UNCHANGED <<mgrVars, agentVars>>

\* mutant: close is acknowledged with a reply before the loop ends
WorkerCloseAck(i) ==
    /\ wstate[i] = "Running"
    /\ wcmd[i].cmd = "close"
    /\ env' = [env EXCEPT ![i].closed = TRUE]
    /\ envCalls' = [envCalls EXCEPT ![i].close = @ + 1]
    /\ wstate' = [wstate EXCEPT ![i] = "Terminated"]
    /\ wcmd' = [wcmd EXCEPT ![i] = NoCmd]
    /\ SendReply(i, "close", [ob |-> NoData])
    /\ UNCHANGED <<toWorker, recvLog>>
    /\ UNCHANGED <<mgrVars, agentVars>>

\* variant of WorkerClose whose loop goes on after env.close()
WorkerCloseNoBreak(i) ==
    /\ wstate[i] = "Running"
    /\ wcmd[i].cmd = "close"
    /\ env' = [env EXCEPT ![i].closed = TRUE]
    /\ envCalls' = [envCalls EXCEPT ![i].close = @ + 1]
    /\ wcmd' = [wcmd EXCEPT ![i] = NoCmd]
    /\ UNCHANGED <<toWorker, toManager, wstate, recvLog, replyLog>>
    /\ UNCHANGED <<mgrVars, agentVars>>

\* lines 18-20: env.close(); break  -- the process exits, nothing is sent
WorkerClose(i) ==
    /\ wstate[i] = "Running"
    /\ wcmd[i].cmd = "close"
    /\ env' = [env EXCEPT ![i].closed = TRUE]
    /\ envCalls' = [envCalls EXCEPT ![i].close = @ + 1]
    /\ wstate' = [wstate EXCEPT ![i] = "Terminated"]
    /\ wcmd' = [wcmd EXCEPT ![i] = NoCmd]
    /\ UNCHANGED <<toWorker, toManager, recvLog, replyLog>>
    /\ UNCHANGED <<mgrVars, agentVars>>

\* lines 21-22
WorkerGetSpaces(i) ==
    /\ wstate[i] = "Running"
    /\ wcmd[i].cmd = "get_spaces"
    /\ SendReply(i, "get_spaces", [spaces |-> i])
    /\ wcmd' = [wcmd EXCEPT ![i] = NoCmd]
    /\ UNCHANGED <<toWorker, wstate, env, envCalls, recvLog>>
    /\ UNCHANGED <<mgrVars, agentVars>>

\* variant of WorkerUnknown that ignores the command and loops on
WorkerUnknownIgnored(i) ==
    /\ wstate[i] = "Running"
    /\ wcmd[i] # NoCmd
    /\ wcmd[i].cmd \notin KnownCmds
    /\ wcmd' = [wcmd EXCEPT ![i] = NoCmd]
    /\ UNCHANGED <<toWorker, toManager, wstate, env, envCalls, recvLog, replyLog>>
    /\ UNCHANGED <<mgrVars, agentVars>>

\* lines 23-24: raise NotImplementedError  -- the process dies
WorkerUnknown(i) ==
    /\ wstate[i] = "Running"
    /\ wcmd[i] # NoCmd
    /\ wcmd[i].cmd \notin KnownCmds
    /\ wstate' = [wstate EXCEPT ![i] = "Faulted"]
    /\ wcmd' = [wcmd EXCEPT ![i] = NoCmd]
    /\ UNCHANGED <<toWorker, toManager, env, envCalls, recvLog, replyLog>>
    /\ UNCHANGED <<mgrVars, agentVars>>


\* ------------------------------------------------------------- the manager
Min(a, b) == IF a < b THEN a ELSE b

\* pipe.send((cmd, data)) on the manager end of pipe i
Send(i, cmd, data) ==
    /\ toWorker' = [toWorker EXCEPT ![i] = Append(@, [cmd |-> cmd, data |-> data])]
    /\ cmdSent' = [cmdSent EXCEPT ![i] = @ + 1]

\* variant of StepFanOut that leaves the last pipe out of the zip
StepFanOutShort(acts) == Min(NumEnvs - 1, Len(acts))

\* how many pipes zip(self._pipes, actions) pairs with an action
StepFanOut(acts) == Min(NumEnvs, Len(acts))

\* control enters _step(actions)
EnterStep(acts) ==
    /\ mpc = "idle"
    /\ mcall' = "step"
    /\ actions' = acts
    /\ mpc' = IF StepFanOut(acts) = 0 THEN "recv" ELSE "send"
    /\ midx' = 1
    /\ results' = <<>>
    /\ ret' = NoRet
    /\ ncalls' = ncalls + 1
    /\ UNCHANGED <<nsteps, cmdSent, repRecv>>
    /\ UNCHANGED protoVars

\* mutant: every action goes to the first pipe
StepPipeFirst == Min(midx, 1)

\* the pipe zip(self._pipes, actions) pairs with action midx
StepPipe == midx

\* lines 39-40: for pipe, action in zip(self._pipes, actions): pipe.send(...)
StepSend ==
    /\ mpc = "send"
    /\ mcall = "step"
    /\ Send(StepPipe, "step", actions[midx])
    /\ IF midx < StepFanOut(actions)
         THEN /\ midx' = midx + 1
              /\ mpc' = mpc
         ELSE /\ midx' = 1
              /\ mpc' = "recv"
    /\ UNCHANGED <<mcall, actions, results, ret, ncalls, nsteps, repRecv>>
    /\ UNCHANGED <<toManager, wstate, wcmd, env, envCalls, recvLog, replyLog>>
    /\ UNCHANGED agentVars

\* mutant: take the next reply from whichever pipe has one (arrival order)
RecvFromArrived == {p \in Envs : toManager[p] # <<>>}

\* the pipes the comprehension [pipe.recv() for pipe in self._pipes] can take
\* its next reply from: it blocks on pipe midx, whatever has arrived elsewhere
RecvFrom == {midx}

\* mutant: the comprehension stops one pipe short
RecvCountShort == NumEnvs - 1

\* variant of RecvCount that waits for one reply per command sent
RecvCountSent == Min(NumEnvs, Len(actions))

\* how many pipes the comprehension iterates over: len(self._pipes)
RecvCount == NumEnvs

\* line 41 (and 53): one pipe.recv() of the comprehension
Recv(call) ==
    /\ mpc = "recv"
    /\ mcall = call
    /\ \E p \in RecvFrom :
         /\ toManager[p] # <<>>
         /\ results' = Append(results, Head(toManager[p]))
         /\ toManager' = [toManager EXCEPT ![p] = Tail(@)]
         /\ repRecv' = [repRecv EXCEPT ![p] = @ + 1]
    /\ IF midx < RecvCount
         THEN /\ midx' = midx + 1
              /\ mpc' = mpc
         ELSE /\ midx' = 1
              /\ mpc' = "stack"
    /\ UNCHANGED <<mcall, actions, ret, ncalls, nsteps, cmdSent>>
    /\ UNCHANGED <<toWorker, wstate, wcmd, env, envCalls, recvLog, replyLog>>
    /\ UNCHANGED agentVars

StepRecv == Recv("step")

\* np.stack of one field of the results, slot by slot
Stack(rs, f) == [k \in 1..Len(rs) |-> rs[k][f]]

\* lines 42-48: zip(*results), stack, return
StepReturn ==
    /\ mpc = "stack"
    /\ mcall = "step"
    /\ ret' = [call |-> "step",
               obs |-> Stack(results, "ob"),
               rewards |-> Stack(results, "reward"),
               dones |-> Stack(results, "done"),
               infos |-> Stack(results, "info")]
    /\ mpc' = "idle"
    /\ results' = <<>>
    /\ nsteps' = nsteps + 1
    /\ UNCHANGED <<mcall, midx, actions, ncalls, cmdSent, repRecv>>
    /\ UNCHANGED <<protoVars, agentVars>>

\* control enters _reset()
EnterReset ==
    /\ mpc = "idle"
    /\ mcall' = "reset"
    /\ actions' = <<>>
    /\ mpc' = "send"
    /\ midx' = 1
    /\ results' = <<>>
    /\ ret' = NoRet
    /\ ncalls' = ncalls + 1
    /\ UNCHANGED <<nsteps, cmdSent, repRecv>>
    /\ UNCHANGED protoVars

\* lines 51-52
ResetSend ==
    /\ mpc = "send"
    /\ mcall = "reset"
    /\ Send(midx, "reset", NoData)
    /\ IF midx < NumEnvs
         THEN /\ midx' = midx + 1
              /\ mpc' = mpc
         ELSE /\ midx' = 1
              /\ mpc' = "recv"
    /\ UNCHANGED <<mcall, actions, results, ret, ncalls, nsteps, repRecv>>
    /\ UNCHANGED <<toManager, wstate, wcmd, env, envCalls, recvLog, replyLog>>
    /\ UNCHANGED agentVars

ResetRecv == Recv("reset")

\* lines 54-59
ResetReturn ==
    /\ mpc = "stack"
    /\ mcall = "reset"
    /\ ret' = [call |-> "reset", obs |-> Stack(results, "ob")]
    /\ mpc' = "idle"
    /\ results' = <<>>
    /\ UNCHANGED <<mcall, midx, actions, ncalls, nsteps, cmdSent, repRecv>>
    /\ UNCHANGED <<protoVars, agentVars>>

\* control enters _close()
EnterClose ==
    /\ mpc = "idle"
    /\ mcall' = "close"
    /\ actions' = <<>>
    /\ mpc' = "send"
    /\ midx' = 1
    /\ results' = <<>>
    /\ ret' = NoRet
    /\ ncalls' = ncalls + 1
    /\ UNCHANGED <<nsteps, cmdSent, repRecv>>
    /\ UNCHANGED protoVars

\* lines 62-63
CloseSend ==
    /\ mpc = "send"
    /\ mcall = "close"
    /\ Send(midx, "close", NoData)
    /\ IF midx < NumEnvs
         THEN /\ midx' = midx + 1
              /\ mpc' = mpc
         ELSE /\ midx' = 1
              /\ mpc' = "join"
    /\ UNCHANGED <<mcall, actions, results, ret, ncalls, nsteps, repRecv>>
    /\ UNCHANGED <<toManager, wstate, wcmd, env, envCalls, recvLog, replyLog>>
    /\ UNCHANGED agentVars

\* variant of CloseJoin that does not wait for the process to exit
CloseJoinNoWait ==
    /\ mpc = "join"
    /\ IF midx < NumEnvs
         THEN /\ midx' = midx + 1
              /\ mpc' = mpc
              /\ ret' = ret
         ELSE /\ midx' = 1
              /\ mpc' = "idle"
              /\ ret' = [call |-> "close"]
    /\ UNCHANGED <<mcall, actions, results, ncalls, nsteps, cmdSent, repRecv>>
    /\ UNCHANGED <<protoVars, agentVars>>

\* lines 64-65: p.join() returns once process midx has exited; after the last
\* join the call returns (None)
CloseJoin ==
    /\ mpc = "join"
    /\ wstate[midx] # "Running"
    /\ IF midx < NumEnvs
         THEN /\ midx' = midx + 1
              /\ mpc' = mpc
              /\ ret' = ret
         ELSE /\ midx' = 1
              /\ mpc' = "idle"
              /\ ret' = [call |-> "close"]
    /\ UNCHANGED <<mcall, actions, results, ncalls, nsteps, cmdSent, repRecv>>
    /\ UNCHANGED <<protoVars, agentVars>>

\* ------------------------------------------------ callers of the manager API
\* the action lists a caller may pass to step: one action per replica, or fewer
ActionLists == UNION {[1..n -> Actions] : n \in 0..NumEnvs}

CallStep(acts) ==
    /\ ncalls < MaxCalls
    /\ EnterStep(acts)
    /\ UNCHANGED agentVars

CallReset ==
    /\ ncalls < MaxCalls
    /\ EnterReset
    /\ UNCHANGED agentVars

CallClose ==
    /\ ncalls < MaxCalls
    /\ EnterClose
    /\ UNCHANGED agentVars

\* ------------------------------------------------------- tensor arithmetic
\* Values are fixed-point: a real x is held as the integer x * Scale, so that
\* MaxT multiplications by a discount in tenths stay exact.
RECURSIVE Pow(_, _)
Pow(b, n) == IF n = 0 THEN 1 ELSE b * Pow(b, n - 1)

Scale == Pow(10, MaxT)

Fix(x) == x * Scale

\* the discounts an agent may be constructed with, in tenths (0.0 and 0.9)
Discounts == {0, 9}
\* what the value head may answer for one replica
Values == {0, 5}

\* torch.Tensor(done.tolist()): booleans become 1.0 / 0.0
FloatOf(dones) == [k \in 1..Len(dones) |-> IF dones[k] THEN 1 ELSE 0]

\* 1 - done, elementwise
OneMinus(done) == [k \in 1..Len(done) |-> 1 - done[k]]

\* x * m, elementwise
TMul(x, m) == [k \in 1..Len(x) |-> x[k] * m[k]]

\* self._discount * x + reward, elementwise
TAxpy(disc, x, reward) ==
    [k \in 1..Len(x) |-> (disc * x[k]) \div 10 + Fix(reward[k])]

\* ------------------------------------------------------ A2CAgent._boostrap
\* Tensors live in storages: heap[id].  A local names a storage; an in-place
\* operation changes the storage, and every view of it with it.

\* r.unsqueeze(1): a view, it shares the storage of r
Unsqueeze(ref) == ref

\* variant of BootObs: the last observation an action was sampled on
BootObsRecorded == IF obs_mb = <<>> THEN obs ELSE obs_mb[Len(obs_mb)]

\* line 83: the observation _rollout passes to _boostrap as last_obs
BootObs == obs

\* lines 109-113: evaluate the value head on last_obs, mask it by done_mb[-1]
BootInit ==
    /\ apc = "boot"
    /\ last_obs' = BootObs
    /\ \E v \in [1..Len(BootObs) -> Values] :
         /\ last_value' = v
         /\ heap' = <<TMul([k \in 1..Len(v) |-> Fix(v[k])],
                           OneMinus(done_mb[Len(done_mb)]))>>
    /\ r' = 1
    /\ target_value' = <<>>
    /\ apc' = "boot_loop"
    /\ UNCHANGED <<rollout_num_steps, discount, params, obs, obs_mb,
                   action_mb, reward_mb, done_mb, target_value_mb>>
    /\ UNCHANGED <<protoVars, mgrVars>>

\* the step the reversed zip hands to the next iteration
BootStep == Len(reward_mb) - Len(target_value)

\* mutant: the running return is not masked by done
MaskSkipped(h, ref, done) == h

\* line 115: r *= 1 - done, in place
MaskInPlace(h, ref, done) == [h EXCEPT ![ref] = TMul(@, OneMinus(done))]

\* lines 114-117: one iteration of the backward loop
BootIter ==
    /\ apc = "boot_loop"
    /\ BootStep >= 1
    /\ LET masked == MaskInPlace(heap, r, done_mb[BootStep])
           new == TAxpy(discount, masked[r], reward_mb[BootStep])
       IN /\ heap' = Append(masked, new)
          /\ r' = Len(masked) + 1
          /\ target_value' = Append(target_value, Unsqueeze(Len(masked) + 1))
    /\ UNCHANGED <<apc, last_value, last_obs, target_value_mb>>
    /\ UNCHANGED <<rollout_num_steps, discount, params, obs, obs_mb,
                   action_mb, reward_mb, done_mb>>
    /\ UNCHANGED <<protoVars, mgrVars>>

\* mutant: the list is returned in loop order, last step first
NotReversed(refs, h) == [k \in 1..Len(refs) |-> h[refs[k]]]

\* target_value[::-1], read through the storages as they are at the return
Reversed(refs, h) == [k \in 1..Len(refs) |-> h[refs[Len(refs) + 1 - k]]]

\* variant of BootReturn after which train goes straight to the next rollout
BootReturnNoUpdate ==
    /\ apc = "boot_loop"
    /\ BootStep = 0
    /\ target_value_mb' = Reversed(target_value, heap)
    /\ heap' = <<>>
    /\ r' = 0
    /\ target_value' = <<>>
    /\ apc' = "loop"
    /\ UNCHANGED <<last_value, last_obs>>
    /\ UNCHANGED <<rollout_num_steps, discount, params, obs, obs_mb,
                   action_mb, reward_mb, done_mb>>
    /\ UNCHANGED <<protoVars, mgrVars>>

\* line 118, and the return of _rollout (line 84) into train (line 65)
BootReturn ==
    /\ apc = "boot_loop"
    /\ BootStep = 0
    /\ target_value_mb' = Reversed(target_value, heap)
    /\ heap' = <<>>
    /\ r' = 0
    /\ target_value' = <<>>
    /\ apc' = "update"
    /\ UNCHANGED <<last_value, last_obs>>
    /\ UNCHANGED <<rollout_num_steps, discount, params, obs, obs_mb,
                   action_mb, reward_mb, done_mb>>
    /\ UNCHANGED <<protoVars, mgrVars>>

\* --------------------------------------------- A2CAgent.train and _rollout
\* line 63: obs = envs.reset()  -- the call
TrainReset ==
    /\ apc = "init"
    /\ EnterReset
    /\ apc' = "reset_wait"
    /\ UNCHANGED <<rollout_num_steps, discount, params, obs, obs_mb,
                   action_mb, reward_mb, done_mb, bootVars>>

\* line 63: envs.reset() has returned
TrainResetReturn ==
    /\ apc = "reset_wait"
    /\ mpc = "idle"
    /\ obs' = ret.obs
    /\ apc' = "loop"
    /\ UNCHANGED <<rollout_num_steps, discount, params, obs_mb,
                   action_mb, reward_mb, done_mb, bootVars>>
    /\ UNCHANGED <<protoVars, mgrVars>>

\* lines 65, 69: _rollout is entered with fresh buffers
RolloutBegin ==
    /\ apc = "loop"
    /\ obs_mb' = <<>>
    /\ action_mb' = <<>>
    /\ reward_mb' = <<>>
    /\ done_mb' = <<>>
    /\ apc' = "sample"
    /\ UNCHANGED <<rollout_num_steps, discount, params, obs, bootVars>>
    /\ UNCHANGED <<protoVars, mgrVars>>

\* mutant: the loop runs one step too many
RolloutLoopDoneLate == Len(reward_mb) > rollout_num_steps

\* line 70: xrange(self._rollout_num_steps) is exhausted
RolloutLoopDone == Len(reward_mb) >= rollout_num_steps

\* lines 71-78: sample one action per replica, record, call envs.step
RolloutSample ==
    /\ apc = "sample"
    /\ ~RolloutLoopDone
    /\ ncalls < MaxTrainCalls
    /\ \E act \in [1..Len(obs) -> Actions] :
         /\ obs_mb' = Append(obs_mb, obs)
         /\ action_mb' = Append(action_mb, act)
         /\ EnterStep(act)
    /\ apc' = "step_wait"
    /\ UNCHANGED <<rollout_num_steps, discount, params, obs, reward_mb,
                   done_mb, bootVars>>

\* variant of RolloutRecord that records the observation after the step
RolloutRecordObsAfter ==
    /\ apc = "step_wait"
    /\ mpc = "idle"
    /\ obs' = ret.obs
    /\ obs_mb' = [obs_mb EXCEPT ![Len(obs_mb)] = ret.obs]
    /\ reward_mb' = Append(reward_mb, ret.rewards)
    /\ done_mb' = Append(done_mb, FloatOf(ret.dones))
    /\ apc' = "sample"
    /\ UNCHANGED <<rollout_num_steps, discount, params, action_mb, bootVars>>
    /\ UNCHANGED <<protoVars, mgrVars>>

\* lines 77-82: envs.step has returned; record reward and done
RolloutRecord ==
    /\ apc = "step_wait"
    /\ mpc = "idle"
    /\ obs' = ret.obs
    /\ reward_mb' = Append(reward_mb, ret.rewards)
    /\ done_mb' = Append(done_mb, FloatOf(ret.dones))
    /\ apc' = "sample"
    /\ UNCHANGED <<rollout_num_steps, discount, params, obs_mb, action_mb,
                   bootVars>>
    /\ UNCHANGED <<protoVars, mgrVars>>

\* line 83: the loop is over, _boostrap is called
RolloutExit ==
    /\ apc = "sample"
    /\ RolloutLoopDone
    /\ apc' = "boot"
    /\ UNCHANGED <<rollout_num_steps, discount, params, obs, obs_mb,
                   action_mb, reward_mb, done_mb, bootVars>>
    /\ UNCHANGED <<protoVars, mgrVars>>

\* lines 66, 86-106: one optimizer step on the batch; the batch is dead after
\* it (line 65 rebinds the three names before anything reads them)
Update ==
    /\ apc = "update"
    /\ params' = params + 1
    /\ obs_mb' = <<>>
    /\ action_mb' = <<>>
    /\ reward_mb' = <<>>
    /\ done_mb' = <<>>
    /\ target_value_mb' = <<>>
    /\ last_value' = <<>>
    /\ apc' = "loop"
    /\ UNCHANGED <<rollout_num_steps, discount, obs, last_obs, heap, r,
                   target_value>>
    /\ UNCHANGED <<protoVars, mgrVars>>

\* -------------------------------------------------------------- initial states
\* lines 28-36: one pipe and one started worker process per environment
InitProto ==
    /\ toWorker = [i \in Envs |-> <<>>]
    /\ toManager = [i \in Envs |-> <<>>]
    /\ wstate = [i \in Envs |-> "Running"]
    /\ wcmd = [i \in Envs |-> NoCmd]
    /\ env = [i \in Envs |-> [tick |-> 0, closed |-> FALSE]]
    /\ envCalls = [i \in Envs |-> [step |-> 0, reset |-> 0, close |-> 0]]
    /\ recvLog = [i \in Envs |-> <<>>]
    /\ replyLog = [i \in Envs |-> <<>>]

InitMgr ==
    /\ mpc = "idle"
    /\ mcall = "none"
    /\ midx = 1
    /\ actions = <<>>
    /\ results = <<>>
    /\ ret = NoRet
    /\ ncalls = 0
    /\ nsteps = 0
    /\ cmdSent = [i \in Envs |-> 0]
    /\ repRecv = [i \in Envs |-> 0]

\* a2c_agent.py lines 45-46: the agent as constructed, train not yet called
InitAgent ==
    /\ apc = "init"
    /\ rollout_num_steps \in 1..MaxT
    /\ discount \in Discounts
    /\ params = 0
    /\ obs = <<>>
    /\ obs_mb = <<>>
    /\ action_mb = <<>>
    /\ reward_mb = <<>>
    /\ done_mb = <<>>
    /\ last_value = <<>>
    /\ last_obs = <<>>
    /\ heap = <<>>
    /\ r = 0
    /\ target_value = <<>>
    /\ target_value_mb = <<>>

\* ------------------------------------------------ Spec: manager and workers
\* Any caller drives the manager API; the agent is constructed and idle.
Init ==
    /\ InitProto
    /\ InitMgr
    /\ InitAgent
    /\ rollout_num_steps = 1
    /\ discount = 9

Next ==
    \/ \E acts \in ActionLists : CallStep(acts)
    \/ CallReset
    \/ CallClose
    \/ StepSend
    \/ StepRecv
    \/ StepReturn
    \/ ResetSend
    \/ ResetRecv
    \/ ResetReturn
    \/ CloseSend
    \/ CloseJoin
    \/ \E i \in Envs : WorkerRecv(i)
    \/ \E i \in Envs : WorkerStep(i)
    \/ \E i \in Envs : WorkerReset(i)
    \/ \E i \in Envs : WorkerClose(i)

Spec == Init /\ [][Next]_vars

\* --------------------------------- SpecFair: Spec under fair scheduling
\* The manager is a sequential program that keeps running while its next
\* statement can execute, and every worker is an operating-system process
\* (line 33-35) that the scheduler keeps running: each of their steps is
\* weakly fair.  Callers of the API are under no obligation to call.
ManagerFair ==
    /\ WF_vars(StepSend)
    /\ WF_vars(StepRecv)
    /\ WF_vars(StepReturn)
    /\ WF_vars(ResetSend)
    /\ WF_vars(ResetRecv)
    /\ WF_vars(ResetReturn)
    /\ WF_vars(CloseSend)
    /\ WF_vars(CloseJoin)

WorkerFair ==
    \A i \in Envs :
        /\ WF_vars(WorkerRecv(i))
        /\ WF_vars(WorkerStep(i))
        /\ WF_vars(WorkerReset(i))
        /\ WF_vars(WorkerClose(i))

SpecFair == Init /\ [][Next]_vars /\ ManagerFair /\ WorkerFair

\* ----------------------- SpecFault: Spec with environments that may raise
\* line 12 (or the reset of line 13): the environment raises inside the step
\* branch; the exception leaves the loop before line 14, the process dies
WorkerStepFault(i) ==
    /\ wstate[i] = "Running"
    /\ wcmd[i].cmd = "step"
    /\ wstate' = [wstate EXCEPT ![i] = "Faulted"]
    /\ wcmd' = [wcmd EXCEPT ![i] = NoCmd]
    /\ UNCHANGED <<toWorker, toManager, env, envCalls, recvLog, replyLog>>
    /\ UNCHANGED <<mgrVars, agentVars>>

\* line 16: env.reset() raises; the process dies before line 17
WorkerResetFault(i) ==
    /\ wstate[i] = "Running"
    /\ wcmd[i].cmd = "reset"
    /\ wstate' = [wstate EXCEPT ![i] = "Faulted"]
    /\ wcmd' = [wcmd EXCEPT ![i] = NoCmd]
    /\ UNCHANGED <<toWorker, toManager, env, envCalls, recvLog, replyLog>>
    /\ UNCHANGED <<mgrVars, agentVars>>

NextFault ==
    \/ Next
    \/ \E i \in Envs : WorkerStepFault(i)
    \/ \E i \in Envs : WorkerResetFault(i)

SpecFault == Init /\ [][NextFault]_vars

\* ----------------------------------------- SpecTrain: A2CAgent.train(envs)
InitTrain ==
    /\ InitProto
    /\ InitMgr
    /\ InitAgent

NextTrain ==
    \/ TrainReset
    \/ TrainResetReturn
    \/ RolloutBegin
    \/ RolloutSample
    \/ RolloutRecord
    \/ RolloutExit
    \/ BootInit
    \/ BootIter
    \/ BootReturn
    \/ Update
    \/ StepSend
    \/ StepRecv
    \/ StepReturn
    \/ ResetSend
    \/ ResetRecv
    \/ ResetReturn
    \/ \E i \in Envs : WorkerRecv(i)
    \/ \E i \in Envs : WorkerStep(i)
    \/ \E i \in Envs : WorkerReset(i)

SpecTrain == InitTrain /\ [][NextTrain]_vars

\* ------------------------------- SpecBoot: _boostrap on every small rollout
\* The bootstrapper is elementwise over the batch; two slots are two rollouts
\* side by side.
BootSlots == {1, 2}

InitBoot ==
    /\ InitProto
    /\ InitMgr
    /\ apc = "boot"
    /\ rollout_num_steps \in 1..MaxT
    /\ discount \in Discounts
    /\ params = 0
    /\ obs = [k \in BootSlots |-> Ob(k, 0)]
    /\ obs_mb = <<>>
    /\ action_mb = <<>>
    /\ reward_mb \in [1..rollout_num_steps -> [BootSlots -> Rewards]]
    /\ done_mb \in [1..rollout_num_steps -> [BootSlots -> {0, 1}]]
    /\ last_value = <<>>
    /\ last_obs = <<>>
    /\ heap = <<>>
    /\ r = 0
    /\ target_value = <<>>
    /\ target_value_mb = <<>>

NextBoot ==
    \/ BootInit
    \/ BootIter
    \/ BootReturn

SpecBoot == InitBoot /\ [][NextBoot]_vars

\* --------------------- SpecWorker: the workers under any peer on their pipes
\* the commands a peer may put on a pipe, the four tags and one unknown tag
PeerCmds ==
    {[cmd |-> "step", data |-> a] : a \in Actions}
    \cup {[cmd |-> c, data |-> NoData] : c \in {"reset", "close", "get_spaces", "bogus"}}

PeerSend(i, c) ==
    /\ ncalls < MaxCalls
    /\ Send(i, c.cmd, c.data)
    /\ ncalls' = ncalls + 1
    /\ UNCHANGED <<mpc, mcall, midx, actions, results, ret, nsteps, repRecv>>
    /\ UNCHANGED <<toManager, wstate, wcmd, env, envCalls, recvLog, replyLog>>
    /\ UNCHANGED agentVars

PeerRecv(i) ==
    /\ toManager[i] # <<>>
    /\ toManager' = [toManager EXCEPT ![i] = Tail(@)]
    /\ repRecv' = [repRecv EXCEPT ![i] = @ + 1]
    /\ UNCHANGED <<mpc, mcall, midx, actions, results, ret, ncalls, nsteps, cmdSent>>
    /\ UNCHANGED <<toWorker, wstate, wcmd, env, envCalls, recvLog, replyLog>>
    /\ UNCHANGED agentVars

NextWorker ==
    \/ \E i \in Envs, c \in PeerCmds : PeerSend(i, c)
    \/ \E i \in Envs : PeerRecv(i)
    \/ \E i \in Envs : WorkerRecv(i)
    \/ \E i \in Envs : WorkerStep(i)
    \/ \E i \in Envs : WorkerReset(i)
    \/ \E i \in Envs : WorkerClose(i)
    \/ \E i \in Envs : WorkerGetSpaces(i)
    \/ \E i \in Envs : WorkerUnknown(i)

SpecWorker == Init /\ [][NextWorker]_vars


\* =================================================================== claims
Last(q) == q[Len(q)]

Returned(call) == mpc = "idle" /\ ret.call = call

\* C1: whatever the order in which the workers reply, a returned step or reset
\* batch has exactly NumEnvs slots and slot i holds what worker i produced
\* (for step: from action i); nothing is placed by arrival order.
C1_SlotIsWorker ==
    /\ Returned("reset") =>
         /\ Len(ret.obs) = NumEnvs
         /\ \A i \in Envs : ret.obs[i] = ResetOb(i)
    /\ Returned("step") =>
         /\ Len(ret.obs) = NumEnvs
         /\ Len(ret.rewards) = NumEnvs
         /\ Len(ret.dones) = NumEnvs
         /\ Len(ret.infos) = NumEnvs
         /\ \A i \in Envs :
              /\ ret.obs[i].env = i
              /\ ret.infos[i].env = i
              /\ ret.infos[i].act = actions[i]
              /\ ret.rewards[i] = ret.infos[i].rew
              /\ ret.dones[i] = ret.infos[i].done

\* a step has returned a batch whose slots differ in action, reward and done
C1_Witness ==
    /\ Returned("step")
    /\ \E i, j \in Envs :
         /\ ret.infos[i].act # ret.infos[j].act
         /\ ret.rewards[i] # ret.rewards[j]
         /\ ret.dones[i] # ret.dones[j]

\* C2: when a step or reset call has returned, every worker has received the
\* command of that call and replied to it, and the manager has consumed that
\* reply: nothing of the call is pending on any channel.
C2_Barrier ==
    (Returned("step") \/ Returned("reset")) =>
        \A i \in Envs :
          /\ toWorker[i] = <<>>
          /\ toManager[i] = <<>>
          /\ wcmd[i] = NoCmd
          /\ cmdSent[i] >= 1
          /\ Len(recvLog[i]) = cmdSent[i]
          /\ Last(recvLog[i]) = ret.call
          /\ replyLog[i] # <<>>
          /\ Last(replyLog[i]) = [kind |-> ret.call, re |-> Len(recvLog[i])]
          /\ repRecv[i] = Len(replyLog[i])

\* a second call has returned
C2_Witness ==
    /\ Returned("step")
    /\ ncalls >= 2
    /\ \A i \in Envs : repRecv[i] >= 2

Abs(x) == IF x < 0 THEN -x ELSE x

\* C3: between calls every worker has run env.step exactly as often as manager
\* step calls have returned; during a call the workers' counts differ by at
\* most one and none is behind the completed calls or more than one ahead.
C3_Lockstep ==
    /\ mpc = "idle" => \A i \in Envs : envCalls[i].step = nsteps
    /\ \A i, j \in Envs : Abs(envCalls[i].step - envCalls[j].step) <= 1
    /\ \A i \in Envs : envCalls[i].step \in {nsteps, nsteps + 1}

\* two step calls have returned
C3_Witness ==
    /\ mpc = "idle"
    /\ nsteps >= 2
    /\ \A i \in Envs : envCalls[i].step = 2

\* worker i completes the handling of a step command in this step
StepHandled(i) == wcmd[i].cmd = "step" /\ wcmd'[i] = NoCmd

\* C4: a worker whose env.step reports done calls env.reset exactly once
\* before replying and replies the reset observation with the reward, done
\* and info of the finished step; without done it does not reset and replies
\* the step's own observation.  So done[i] in a returned step batch means
\* obs[i] is replica i's fresh reset observation.
C4_AutoReset ==
    [][ /\ \A i \in Envs : StepHandled(i) =>
             LET msg == Last(toManager'[i])
             IN /\ Len(toManager'[i]) = Len(toManager[i]) + 1
                /\ envCalls'[i].step = envCalls[i].step + 1
                /\ msg.info = Info(i, wcmd[i].data, msg.reward, msg.done)
                /\ msg.done =>
                     /\ envCalls'[i].reset = envCalls[i].reset + 1
                     /\ msg.ob = ResetOb(i)
                     /\ env'[i].tick = 0
                /\ ~msg.done =>
                     /\ envCalls'[i].reset = envCalls[i].reset
                     /\ msg.ob = Ob(i, env[i].tick + 1)
                     /\ env'[i].tick = env[i].tick + 1
        /\ (Returned("step"))' =>
             \A i \in Envs :
               /\ ret'.dones[i] => ret'.obs[i] = ResetOb(i)
               /\ ~ret'.dones[i] => ret'.obs[i].tick >= 1
      ]_vars

\* a returned step batch with one replica done and one not
C4_Witness ==
    /\ Returned("step")
    /\ \E i, j \in Envs :
         /\ ret.dones[i]
         /\ ret.obs[i] = ResetOb(i)
         /\ ~ret.dones[j]
         /\ ret.obs[j].tick >= 1

\* ------------------------------------------------------ the bootstrapper
\* the reference backward recursion, for slot k, as the running return R after
\* step t has been processed (steps are 1..T here):
\*   R = V_T * (1 - d_T);  for t = T down to 1: R = r_t + discount * R * (1 - d_t)
RECURSIVE RefReturn(_, _, _, _, _, _)
RefReturn(rew, dn, v, disc, t, k) ==
    IF t > Len(rew)
      THEN Fix(v[k]) * (1 - dn[Len(dn)][k])
      ELSE Fix(rew[t][k])
           + (disc * RefReturn(rew, dn, v, disc, t + 1, k) * (1 - dn[t][k])) \div 10

RefTargets(rew, dn, v, disc) ==
    [t \in 1..Len(rew) |->
        [k \in 1..Len(rew[t]) |-> RefReturn(rew, dn, v, disc, t, k)]]

BootReturned == apc = "update"

\* C5: the targets _boostrap returns equal, element by element, the targets
\* of the reference backward recursion.
C5_MatchesReference ==
    BootReturned =>
        target_value_mb = RefTargets(reward_mb, done_mb, last_value, discount)

\* C6: with discount 0 every returned target equals its step's reward.
C6_ZeroDiscount ==
    (BootReturned /\ discount = 0) =>
        \A t \in 1..Len(reward_mb) : \A k \in 1..Len(reward_mb[t]) :
            target_value_mb[t][k] = Fix(reward_mb[t][k])

\* slots a and b hold rollouts that agree on every done and on the rewards up
\* to step t0, where an episode ends before the last step
SameUpTo(a, b, t0) ==
    /\ t0 < Len(done_mb)
    /\ done_mb[t0][a] = 1
    /\ \A t \in 1..Len(done_mb) : done_mb[t][a] = done_mb[t][b]
    /\ \A t \in 1..t0 : reward_mb[t][a] = reward_mb[t][b]

\* C7: two rollouts that agree on all dones and on the rewards up to a step t0
\* before the last at which done is true get the same targets at every step
\* up to t0, whatever the later rewards and the terminal values are.
C7_NoLeak ==
    BootReturned =>
        \A a, b \in 1..Len(last_value) : \A t0 \in 1..Len(done_mb) :
            SameUpTo(a, b, t0) =>
                \A t \in 1..t0 : target_value_mb[t][a] = target_value_mb[t][b]

\* two such rollouts that differ in a later reward and in the terminal value
C7_Witness ==
    /\ BootReturned
    /\ \E a, b \in 1..Len(last_value) : \E t0 \in 1..Len(done_mb) :
         /\ SameUpTo(a, b, t0)
         /\ t0 >= 2
         /\ \E t \in (t0 + 1)..Len(reward_mb) : reward_mb[t][a] # reward_mb[t][b]
         /\ last_value[a] # last_value[b]
         /\ done_mb[Len(done_mb)][a] = 0

\* the rollout of the scenario: 2 environments, 3 steps, discount 0.9
C8_Input ==
    /\ discount = 9
    /\ reward_mb = <<<<1, 0>>, <<0, 1>>, <<1, 1>>>>
    /\ done_mb = <<<<0, 0>>, <<0, 0>>, <<1, 0>>>>
    /\ last_value = <<5, 5>>

\* the decimal n / d as a fixed-point value
Dec(n, d) == (n * Scale) \div d

\* C8: on that rollout the returned targets are
\* [[1.81, 5.355], [0.9, 5.95], [1, 5.5]].
C8_Scenario ==
    (BootReturned /\ C8_Input) =>
        target_value_mb = << <<Dec(181, 100), Dec(5355, 1000)>>,
                             <<Dec(9, 10), Dec(595, 100)>>,
                             <<Dec(1, 1), Dec(55, 10)>> >>

C8_Witness == BootReturned /\ C8_Input

\* C9: whenever _update is about to fire, the observation, action and target
\* buffers hold exactly rollout_num_steps entries, each over all NumEnvs
\* replicas, and exactly rollout_num_steps manager steps were made since the
\* previous update (or the initial reset).
C9_FullRollout ==
    apc = "update" =>
        /\ Len(obs_mb) = rollout_num_steps
        /\ Len(action_mb) = rollout_num_steps
        /\ Len(target_value_mb) = rollout_num_steps
        /\ \A t \in 1..rollout_num_steps :
             /\ Len(obs_mb[t]) = NumEnvs
             /\ Len(action_mb[t]) = NumEnvs
             /\ Len(target_value_mb[t]) = NumEnvs
        /\ nsteps = rollout_num_steps * (params + 1)
        /\ ncalls = nsteps + 1
        /\ mpc = "idle"

\* a second update is about to fire
C9_Witness == apc = "update" /\ params = 1

\* the replies a worker owes for the first n commands of its log, in order
RECURSIVE Owed(_, _)
Owed(log, n) ==
    IF n = 0 THEN <<>>
    ELSE IF log[n] \in {"step", "reset", "get_spaces"}
           THEN Append(Owed(log, n - 1), [kind |-> log[n], re |-> n])
           ELSE Owed(log, n - 1)

\* the commands worker i has finished handling
Handled(i) == Len(recvLog[i]) - (IF wcmd[i] = NoCmd THEN 0 ELSE 1)

\* the fields of the reply each command is answered with
ReplyShape(kind) ==
    CASE kind = "step" -> {"ob", "reward", "done", "info"}
      [] kind = "reset" -> {"ob"}
      [] kind = "get_spaces" -> {"spaces"}
      [] OTHER -> {}

\* C10: the replies a worker has sent are exactly one per step, reset and
\* get_spaces command it has handled, in the order it received them; close
\* (and an unknown tag) is answered by nothing; every message on the channel
\* is such a reply.
C10_RequestReply ==
    \A i \in Envs :
      /\ replyLog[i] = Owed(recvLog[i], Handled(i))
      /\ Len(toManager[i]) + repRecv[i] = Len(replyLog[i])
      /\ \A k \in 1..Len(toManager[i]) :
           DOMAIN toManager[i][k] = ReplyShape(replyLog[i][repRecv[i] + k].kind)

\* a worker has answered two commands and then handled close
C10_Witness ==
    \E i \in Envs :
      /\ wstate[i] = "Terminated"
      /\ Len(recvLog[i]) = 3
      /\ Len(replyLog[i]) = 2
      /\ replyLog[i][1].kind # replyLog[i][2].kind


\* ---------------------------------------------------------------- C11
\* close is called while every worker is Running and idle
CloseCalledIdle ==
    /\ mcall = "close" /\ mpc = "send" /\ midx = 1
    /\ \A i \in Envs : /\ wstate[i] = "Running"
                       /\ wcmd[i] = NoCmd
                       /\ toWorker[i] = <<>>

\* the close command is the last command sent to worker i
CloseSentLast(i) ==
    IF toWorker[i] # <<>>
      THEN Last(toWorker[i]).cmd = "close"
      ELSE recvLog[i] # <<>> /\ Last(recvLog[i]) = "close"

\* C11: a returned close call has sent the close command to every worker
\* and every worker process has terminated, having called env.close exactly
\* once; and a close call made while all workers are Running and idle
\* eventually returns.
C11_Close ==
    /\ [](Returned("close") =>
            \A i \in Envs : /\ CloseSentLast(i)
                             /\ wstate[i] = "Terminated"
                             /\ env[i].closed
                             /\ envCalls[i].close = 1)
    /\ (CloseCalledIdle ~> Returned("close"))

C11_Witness ==
    /\ Returned("close")
    /\ nsteps >= 1
    /\ \A i \in Envs : wstate[i] = "Terminated" /\ envCalls[i].close = 1

\* ---------------------------------------------------------------- C12
\* worker i takes no part in a step: it receives nothing, handles nothing,
\* leaves its environment alone and sends nothing (its peer may still write
\* to and read from the two channels)
WorkerIdles(i) ==
    /\ Len(toWorker'[i]) >= Len(toWorker[i])
    /\ SubSeq(toWorker'[i], 1, Len(toWorker[i])) = toWorker[i]
    /\ recvLog'[i] = recvLog[i]
    /\ wcmd'[i] = wcmd[i]
    /\ env'[i] = env[i]
    /\ envCalls'[i] = envCalls[i]
    /\ replyLog'[i] = replyLog[i]
    /\ Len(toManager'[i]) <= Len(toManager[i])

\* worker i finishes handling the command it holds
Finishes(i) == wcmd[i] # NoCmd /\ wcmd'[i] # wcmd[i]

\* C12: a Running worker is still Running after handling step, reset or
\* get_spaces and is Terminated after handling close, which is the only way
\* to become Terminated; a Terminated worker stays Terminated and never
\* receives or handles a command, touches its environment or sends a reply.
C12_Lifecycle ==
    [][\A i \in Envs :
         /\ (Finishes(i) /\ wcmd[i].cmd \in {"step", "reset", "get_spaces"})
               => wstate[i] = "Running" /\ wstate'[i] = "Running"
         /\ (Finishes(i) /\ wcmd[i].cmd = "close")
               => wstate[i] = "Running" /\ wstate'[i] = "Terminated"
         /\ (wstate'[i] = "Terminated" /\ wstate[i] # "Terminated")
               => Finishes(i) /\ wcmd[i].cmd = "close"
         /\ wstate[i] = "Terminated"
               => wstate'[i] = "Terminated" /\ WorkerIdles(i)]_vars

\* a worker answered a command, handled close, and a command sent to it
\* afterwards lies unread on its channel
C12_Witness ==
    \E i \in Envs :
      /\ wstate[i] = "Terminated"
      /\ Len(replyLog[i]) = 1
      /\ Len(recvLog[i]) = 2
      /\ toWorker[i] # <<>>
      /\ wcmd[i] = NoCmd

\* ---------------------------------------------------------------- C13
\* worker i holds a command whose tag is none of the four
UnknownHeld(i) == wcmd[i] # NoCmd /\ wcmd[i].cmd \notin KnownCmds

\* C13: a worker that handles a command with an unknown tag faults: it
\* leaves the Running state without sending a reply and without calling
\* env.step, env.reset or env.close for it, and from then on receives and
\* handles no command; the command is never skipped with the worker Running.
C13_UnknownTag ==
    [][\A i \in Envs :
         /\ (UnknownHeld(i) /\ Finishes(i))
               => /\ wstate[i] = "Running"
                  /\ wstate'[i] = "Faulted"
                  /\ replyLog'[i] = replyLog[i]
                  /\ Len(toManager'[i]) <= Len(toManager[i])
                  /\ env'[i] = env[i]
                  /\ envCalls'[i] = envCalls[i]
         /\ wstate[i] = "Faulted"
               => wstate'[i] = "Faulted" /\ WorkerIdles(i)]_vars

\* a worker answered a command, faulted on an unknown tag, and a command
\* sent to it afterwards lies unread on its channel
C13_Witness ==
    \E i \in Envs :
      /\ wstate[i] = "Faulted"
      /\ Len(recvLog[i]) = 2
      /\ Last(recvLog[i]) \notin KnownCmds
      /\ Len(replyLog[i]) = 1
      /\ toWorker[i] # <<>>
      /\ wcmd[i] = NoCmd

\* ---------------------------------------------------------------- C14
\* C14: when the environment of a worker has raised during env.step or
\* env.reset, that worker has sent no reply for the command and is gone for
\* good, and the manager's step or reset call that sent the command is still
\* in progress and has returned nothing: the call never returns, whatever
\* the other workers reply.
C14_EnvFault ==
    /\ [](\A i \in Envs :
            wstate[i] = "Faulted"
              => /\ mpc \in {"send", "recv"}
                 /\ mcall \in {"step", "reset"}
                 /\ Last(recvLog[i]) = mcall
                 /\ ret = NoRet
                 /\ wcmd[i] = NoCmd
                 /\ replyLog[i] = Owed(recvLog[i], Len(recvLog[i]) - 1)
                 /\ Len(results) < NumEnvs)
    /\ [][\A i \in Envs :
            wstate[i] = "Faulted"
              => wstate'[i] = "Faulted" /\ WorkerIdles(i) /\ mpc' # "idle"]_vars

\* the last worker has faulted on a step command, every other worker has
\* replied and the manager has taken those replies: it waits on the last pipe
C14_Witness ==
    /\ wstate[NumEnvs] = "Faulted"
    /\ mcall = "step" /\ mpc = "recv" /\ midx = NumEnvs
    /\ Len(results) = NumEnvs - 1
    /\ nsteps >= 1
    /\ \A i \in Envs : toManager[i] = <<>> /\ toWorker[i] = <<>>

\* ---------------------------------------------------------------- C15
\* the tags of the commands sent to worker i so far, in order
SentTags(i) == recvLog[i] \o [k \in 1..Len(toWorker[i]) |-> toWorker[i][k].cmd]

\* C15: train resets the environments exactly once, before the first step:
\* the first command every worker is sent is reset and every later one is
\* step.  The observation _boostrap evaluates the value head on is the one
\* the last manager step of the rollout returned, and it is the observation
\* the next rollout starts from and records first.
C15_Stitched ==
    /\ \A i \in Envs : \A k \in 1..Len(SentTags(i)) :
           SentTags(i)[k] = (IF k = 1 THEN "reset" ELSE "step")
    /\ apc \in {"boot_loop", "update"}
          => Returned("step") /\ last_obs = ret.obs
    /\ (params >= 1 /\ apc = "loop") => obs = last_obs
    /\ (params >= 1 /\ apc \in {"sample", "step_wait", "boot"} /\ obs_mb # <<>>)
          => obs_mb[1] = last_obs

\* a second rollout has recorded its first observation, which is not an
\* initial one
C15_Witness ==
    /\ params >= 1
    /\ apc = "step_wait"
    /\ Len(obs_mb) = 1
    /\ obs_mb[1] = last_obs
    /\ \E i \in Envs : obs_mb[1][i] # ResetOb(i)

\* ---------------------------------------------------------------- C16
\* nothing of a manager call is in flight: the manager is idle, the channels
\* are empty and no worker holds a command
Quiescent ==
    /\ mpc = "idle"
    /\ \A i \in Envs : /\ toWorker[i] = <<>>
                       /\ toManager[i] = <<>>
                       /\ wcmd[i] = NoCmd

\* C16: rollout collection and update alternate without overlap.  While
\* bootstrapping or the update runs nothing of a manager call is in flight;
\* the number of updates done equals the number of rollouts completed, one
\* update after each rollout of rollout_num_steps manager steps; and the
\* parameters change only in the update, by one optimizer step.
C16_Alternation ==
    /\ [](apc \in {"boot", "boot_loop", "update"}
            => Quiescent /\ nsteps = (params + 1) * rollout_num_steps)
    /\ [](apc = "loop" => Quiescent /\ nsteps = params * rollout_num_steps)
    /\ [](apc = "sample"
            => /\ Quiescent
               /\ nsteps = params * rollout_num_steps + Len(reward_mb))
    /\ [][params' # params
            => /\ apc = "update" /\ apc' = "loop"
               /\ params' = params + 1
               /\ Quiescent]_vars

\* the second update is about to run
C16_Witness ==
    /\ apc = "update"
    /\ params = 1
    /\ nsteps = 2 * rollout_num_steps
    /\ Quiescent

\* ---------------------------------------------------------------- C17
\* the observation that follows step t of the rollout under collection
ObsAfter(t) == IF t < Len(obs_mb) THEN obs_mb[t + 1] ELSE obs

\* C17: in the rollout buffers, obs_mb[t] is the observation held when
\* action_mb[t] was sampled, before the manager step; reward_mb[t] and
\* done_mb[t] are what the manager step called with action_mb[t] returned;
\* and the observation that step returned is obs_mb[t+1], or the final
\* observation after the last step: it is the environment's successor of
\* obs_mb[t], or its reset observation when done_mb[t] is set.
C17_Pairing ==
    /\ [](apc \in {"sample", "step_wait", "boot", "boot_loop", "update"}
            => /\ Len(obs_mb) = Len(action_mb)
               /\ Len(reward_mb) = Len(done_mb)
               /\ \A t \in 1..Len(reward_mb) : \A i \in Envs :
                    ObsAfter(t)[i] = IF done_mb[t][i] = 1
                                       THEN ResetOb(i)
                                       ELSE Ob(i, obs_mb[t][i].tick + 1))
    /\ [][(apc = "sample" /\ apc' = "step_wait")
            => /\ Len(obs_mb') = Len(reward_mb) + 1
               /\ Last(obs_mb') = obs
               /\ actions' = Last(action_mb')]_vars
    /\ [][(apc = "step_wait" /\ apc' = "sample")
            => LET t == Len(reward_mb')
               IN /\ t = Len(action_mb)
                  /\ obs_mb' = obs_mb
                  /\ obs' = ret.obs
                  /\ \A i \in Envs :
                       /\ ret.infos[i].act = action_mb[t][i]
                       /\ reward_mb'[t][i] = ret.infos[i].rew
                       /\ done_mb'[t][i] = (IF ret.infos[i].done THEN 1 ELSE 0)]_vars

\* two transitions are recorded, the first ended an episode in one replica
\* and not in the other
C17_Witness ==
    /\ apc = "sample"
    /\ Len(reward_mb) = 2
    /\ done_mb[1][1] = 1
    /\ done_mb[1][2] = 0
    /\ obs_mb[2][1] = ResetOb(1)
    /\ obs_mb[2][2] = Ob(2, 1)

\* ---------------------------------------------------------------- C18
\* C18: once an iteration of the backward loop has appended a target, no
\* later iteration changes the value that list entry reads, so each target
\* is returned as the running return was when its iteration recorded it.
C18_TargetsFrozen ==
    [][(apc = "boot_loop" /\ apc' = "boot_loop")
         => \A k \in 1..Len(target_value) :
              heap'[target_value'[k]] = heap[target_value[k]]]_vars

\* ---------------------------------------------------------------- C19
\* the manager is inside a call of the given kind, made with one action per
\* worker if it is a step, and every worker is Running
InCall(call) ==
    /\ mpc # "idle"
    /\ mcall = call
    /\ call = "step" => Len(actions) = NumEnvs
    /\ \A i \in Envs : wstate[i] = "Running"

\* C19: under fair scheduling and with no environment fault, every step call
\* made with NumEnvs actions and every reset call, made while all workers
\* are Running, eventually returns.
C19_BarrierLive ==
    /\ (InCall("step") ~> Returned("step"))
    /\ (InCall("reset") ~> Returned("reset"))

\* a second step call has returned with all workers still Running
C19_Witness ==
    /\ Returned("step")
    /\ nsteps = 2
    /\ \A i \in Envs : wstate[i] = "Running" /\ Len(replyLog[i]) >= 2

\* ---------------------------------------------------------------- C20
\* the commands sent to worker i that it has not finished handling
Unanswered(i) == Len(toWorker[i]) + (IF wcmd[i] = NoCmd THEN 0 ELSE 1)

\* the manager waits: for a reply (line 41, 53) or for a process exit (64-65)
Waiting == mpc \in {"recv", "join"}

\* the command of the current call has been sent to worker i: every call
\* so far has sent it one command and the last one carries the call's tag
CallSentTo(i) ==
    /\ cmdSent[i] = ncalls
    /\ SentTags(i) # <<>>
    /\ Last(SentTags(i)) = mcall

\* C20 as stated: in every step, reset and close call the command has been
\* sent to all NumEnvs workers before the manager waits, and each channel
\* carries at most one unanswered command at any time.
C20_AsStated ==
    /\ Waiting => \A i \in Envs : CallSentTo(i)
    /\ \A i \in Envs : Unanswered(i) <= 1

\* C20, amended: in every reset and close call, and in every step call made
\* with NumEnvs actions, the command has been sent to all NumEnvs workers
\* before the manager waits; and each channel to a Running worker carries
\* at most one unanswered command at any time.
C20_FanOutFirst ==
    /\ (Waiting /\ (mcall = "step" => Len(actions) = NumEnvs))
          => \A i \in Envs : CallSentTo(i)
    /\ \A i \in Envs : wstate[i] = "Running" => Unanswered(i) <= 1

\* the manager waits for the first reply of a step call while every worker
\* holds the step command: all of them execute it at the same time
C20_Witness ==
    /\ mcall = "step" /\ mpc = "recv" /\ midx = 1
    /\ \A i \in Envs : /\ wcmd[i].cmd = "step"
                       /\ toManager[i] = <<>>
                       /\ CallSentTo(i)

\* ---------------------------------------------------------------- C21
\* the manager is in a step call made with fewer actions than workers
ShortStep == mcall = "step" /\ Len(actions) < NumEnvs

\* how many commands the current step call sends to worker i
StepShare(i) == IF i <= Len(actions) THEN 1 ELSE 0

\* C21: a step call sends one step command per supplied action, action i to
\* worker i, and then waits for a reply on all NumEnvs pipes: once it waits,
\* worker i has been sent one command of the call if i is within the
\* actions and none otherwise; a call that reaches the stacking of its
\* results, or returns, was made with NumEnvs actions and has NumEnvs
\* results; a call made with fewer actions stays in progress for ever and
\* returns nothing.
C21_ShortStep ==
    /\ []((mcall = "step" /\ mpc = "recv")
            => \A i \in Envs : cmdSent[i] = ncalls - 1 + StepShare(i))
    /\ []((mcall = "step" /\ mpc = "stack")
            => Len(actions) = NumEnvs /\ Len(results) = NumEnvs)
    /\ [](Returned("step")
            => Len(actions) = NumEnvs /\ Len(ret.obs) = NumEnvs)
    /\ [](ShortStep
            => /\ mpc \in {"send", "recv"}
               /\ ret = NoRet
               /\ Len(results) <= Len(actions))
    /\ [][(mcall = "step" /\ cmdSent' # cmdSent)
            => \E i \in 1..Len(actions) :
                 /\ cmdSent[i] = ncalls - 1
                 /\ cmdSent' = [cmdSent EXCEPT ![i] = @ + 1]
                 /\ Last(toWorker'[i]) = [cmd |-> "step", data |-> actions[i]]]_vars
    /\ [][ShortStep => (mcall' = mcall /\ actions' = actions /\ mpc' # "idle")]_vars

\* after a returned call, a step call with one action too few has taken the
\* replies of the workers it commanded and waits on the pipe of a Running,
\* idle worker that was sent nothing
C21_Witness ==
    /\ ShortStep
    /\ Len(actions) = NumEnvs - 1
    /\ ncalls >= 2
    /\ mpc = "recv" /\ midx = NumEnvs
    /\ Len(results) = NumEnvs - 1
    /\ wstate[NumEnvs] = "Running"
    /\ Unanswered(NumEnvs) = 0
    /\ toManager[NumEnvs] = <<>>

=============================================================================
